---- MODULE Spec2Model ----
(***************************************************************************)
(* Beam analysis: the load list, the beam geometry, the two supports and   *)
(* the reaction solver of the main component (src/src/utils/               *)
(* calculations.ts, from line 94), the validate-on-write load list of      *)
(* components/BeamAnalysis.tsx, and validateLoad of the utility module;    *)
(* the renders of the main component, with the reactions its effect stores *)
(* and the diagram and stresses a render computes; the calls a diagram     *)
(* makes in the moment-area variant (unnamed/part_003); the deflection of  *)
(* the conjugate-beam variant (unnamed/part_002); the load handlers of the *)
(* main component as closures of a render; calculateReactions and          *)
(* calculateMoment of the main component as functions of a render's state. *)
(*                                                                         *)
(* Numbers.  A JavaScript number is modelled as a record [n, d]:           *)
(*   d > 0          the rational n/d in lowest terms,                      *)
(*   d = 0, n = 1   +Infinity,   d = 0, n = -1   -Infinity,                *)
(*   d = 0, n = 0   NaN,                                                   *)
(*   d = -1         the JavaScript value undefined (an absent length).     *)
(* Arithmetic is exact; the rounding the code itself performs, toFixed(3)  *)
(* and toFixed(6), is modelled as rounding to the nearest thousandth and   *)
(* millionth.  The sign of zero is not modelled.                           *)
(***************************************************************************)
EXTENDS Integers, Sequences, FiniteSets, TLC

VARIABLES
    beamLength,             \* main component: useState(5)
    loads,                  \* main component: useState([{id 1, point, 2.5, 50}])
    startSupportPosition,   \* main component: useState(0)
    endSupportPosition,     \* main component: useState(4)
    startSupport,           \* main component: useState('pin')
    endSupport,             \* main component: useState('roller')
    vBeamLength,            \* validating component: useState(5)
    vLoads,                 \* validating component: useState([three loads])
    arg,                    \* function under test: its arguments
    ret,                    \* function under test: its progress and result
    beamHeight,             \* main component: useState(0.2)
    beamWidth,              \* main component: useState(0.1)
    reactions,              \* main component: useState({0, 0, 0, 0})
    momentEnd,              \* endSupportPosition as calculateMoment's closure holds it
    pc,                     \* "effect": the useEffect of the last render is pending
    closure,                \* 'loads' as the handlers of the last render hold it, and their calls since
    steps                   \* handler invocations so far (bounds the exploration)

vars == <<beamLength, loads, startSupportPosition, endSupportPosition,
          startSupport, endSupport, vBeamLength, vLoads, arg, ret,
          beamHeight, beamWidth, reactions, momentEnd, pc, closure, steps>>

mainVars == <<beamLength, loads, startSupportPosition, endSupportPosition,
              startSupport, endSupport>>
valVars == <<vBeamLength, vLoads>>
pureVars == <<arg, ret>>
renderVars == <<beamHeight, beamWidth, reactions, momentEnd, pc, closure>>

----------------------------------------------------------------------------
(* JavaScript numbers *)

Abs(i) == IF i < 0 THEN -i ELSE i

Sgn(i) == IF i < 0 THEN -1 ELSE IF i > 0 THEN 1 ELSE 0

RECURSIVE GCD(_, _)
GCD(a, b) == IF b = 0 THEN a ELSE GCD(b, a % b)

\* The number n/d, d any integer: lowest terms, or Infinity/NaN when d = 0.
Norm(n, d) ==
    IF d = 0 THEN [n |-> Sgn(n), d |-> 0]
    ELSE LET g == GCD(Abs(n), Abs(d))
         IN  [n |-> Sgn(d) * Sgn(n) * (Abs(n) \div g), d |-> Abs(d) \div g]

N(i) == [n |-> i, d |-> 1]
Q(i, j) == Norm(i, j)
Zero == N(0)
NaN == [n |-> 0, d |-> 0]
Infinity == [n |-> 1, d |-> 0]
Undefined == [n |-> 0, d |-> -1]

\* Number(v): undefined converts to NaN, a number to itself.
Number(x) == IF x.d < 0 THEN NaN ELSE x

isNaN(x) == Number(x) = NaN

IsFinite(x) == x.d > 0

\* if (x) ...: undefined, 0 and NaN are falsy.
Truthy(x) == x.d >= 0 /\ x.n # 0

Neg(x) == [n |-> -x.n, d |-> x.d]

Add(x, y) ==
    IF x = NaN \/ y = NaN THEN NaN
    ELSE IF x.d = 0 /\ y.d = 0 THEN (IF x.n = y.n THEN x ELSE NaN)
    ELSE IF x.d = 0 THEN x
    ELSE IF y.d = 0 THEN y
    ELSE LET g == GCD(x.d, y.d)
         IN  Norm(x.n * (y.d \div g) + y.n * (x.d \div g), (x.d \div g) * y.d)

Sub(x, y) == Add(x, Neg(y))

\* Infinity * 0 = NaN, NaN * x = NaN fall out of Norm(_, 0); the common
\* factors are divided out before the products are formed.
Mul(x, y) ==
    IF x.d = 0 \/ y.d = 0 THEN Norm(x.n * y.n, 0)
    ELSE LET g == GCD(Abs(x.n), y.d)
             h == GCD(Abs(y.n), x.d)
         IN  Norm((x.n \div g) * (y.n \div h), (x.d \div h) * (y.d \div g))

\* x / 0 = +-Infinity, 0 / 0 = NaN, x / Infinity = 0.
Div(x, y) == Mul(x, Norm(y.d, y.n))

\* x < y; false when either is NaN.
Lt(x, y) ==
    IF x = NaN \/ y = NaN THEN FALSE
    ELSE IF x.d = 0 /\ y.d = 0 THEN x.n < y.n
    ELSE IF x.d = 0 THEN x.n < 0
    ELSE IF y.d = 0 THEN y.n > 0
    ELSE LET g == GCD(x.d, y.d)
         IN  x.n * (y.d \div g) < y.n * (x.d \div g)

Le(x, y) == x # NaN /\ y # NaN /\ (x = y \/ Lt(x, y))
Gt(x, y) == Lt(y, x)
Ge(x, y) == Le(y, x)

MathMin(x, y) == IF x = NaN \/ y = NaN THEN NaN ELSE IF Lt(y, x) THEN y ELSE x
MathMax(x, y) == IF x = NaN \/ y = NaN THEN NaN ELSE IF Lt(x, y) THEN y ELSE x
MathAbs(x) == [n |-> Abs(x.n), d |-> x.d]

\* Number(x.toFixed(3)): the nearest thousandth, a tie away from zero.
ToFixed3(x) ==
    IF x.d = 0 THEN x
    ELSE LET whole == Abs(x.n) \div x.d
             rest == Abs(x.n) % x.d
             thousandths == (2 * 1000 * rest + x.d) \div (2 * x.d)
         IN  Norm(Sgn(x.n) * (1000 * whole + thousandths), 1000)

----------------------------------------------------------------------------
(* The main component: state, handlers, reaction solver *)

Kinds == {"pin", "roller", "fixed"}
LoadTypes == {"point", "distributed", "moment", "torsion"}

\* Bound of the model: the behaviours explored are those of at most this many
\* handler invocations after construction.
MaxSteps == 5

\* Values typed into the beam-length input (NaN: a cleared field parses to 0,
\* text that is no number to NaN).
LengthInputs == {NaN, N(-3), Zero, N(1), N(8)}
\* Values typed into the two support-position inputs.
SupportInputs == {NaN, N(-1), Zero, N(1), N(2), N(6), N(9)}
\* Values typed into a load's position, magnitude and length inputs.
PositionInputs == {N(-1), N(3), N(9)}
MagnitudeInputs == {N(20)}
LengthFieldInputs == {NaN, Zero, N(2), N(9)}

Ids(ls) == {ls[i].id : i \in DOMAIN ls}

\* Math.max(0, ...ids)
MaxId(ls) == IF ls = <<>> THEN 0
             ELSE CHOOSE m \in Ids(ls) : \A j \in Ids(ls) : j <= m

MainInit ==
    /\ beamLength = N(5)
    /\ loads = <<[id |-> 1, type |-> "point", position |-> Q(5, 2),
                  magnitude |-> N(50), length |-> Undefined]>>
    /\ startSupportPosition = Zero
    /\ endSupportPosition = N(4)
    /\ startSupport = "pin"
    /\ endSupport = "roller"

\* One load of prevLoads.map(...) in handleBeamLengthChange.
ClipLoad(load, newLength) ==
    [load EXCEPT
        !.position = MathMin(load.position, newLength),
        !.length = IF Truthy(load.length)
                   THEN MathMin(load.length, Sub(newLength, load.position))
                   ELSE Undefined]

handleBeamLengthChange(newLength) ==
    /\ Gt(newLength, Zero)
    /\ beamLength' = newLength
    /\ endSupportPosition' = MathMin(endSupportPosition, newLength)
    /\ loads' = [i \in DOMAIN loads |-> ClipLoad(loads[i], newLength)]
    /\ UNCHANGED <<startSupportPosition, startSupport, endSupport>>

handleSupportPositionChange(position, isStart) ==
    /\ IF isStart
       THEN /\ Ge(position, Zero) /\ Lt(position, endSupportPosition)
            /\ startSupportPosition' = position
            /\ UNCHANGED endSupportPosition
       ELSE /\ Gt(position, startSupportPosition) /\ Le(position, beamLength)
            /\ endSupportPosition' = position
            /\ UNCHANGED startSupportPosition
    /\ UNCHANGED <<beamLength, loads, startSupport, endSupport>>

setStartSupport(kind) ==
    /\ startSupport' = kind
    /\ UNCHANGED <<beamLength, loads, startSupportPosition, endSupportPosition,
                   endSupport>>

setEndSupport(kind) ==
    /\ endSupport' = kind
    /\ UNCHANGED <<beamLength, loads, startSupportPosition, endSupportPosition,
                   startSupport>>

\* NewId taken from the length of the list instead of the largest id.
NewIdByCount(ls) == Len(ls) + 1

\* The id addLoad gives the new load.
NewId(ls) == MaxId(ls) + 1

addLoad ==
    /\ loads' = Append(loads,
                  [id |-> NewId(loads), type |-> "point",
                   position |-> Div(beamLength, N(2)),
                   magnitude |-> N(-10), length |-> Undefined])
    /\ UNCHANGED <<beamLength, startSupportPosition, endSupportPosition,
                   startSupport, endSupport>>

\* ClampPosition without its upper clamp.
ClampPositionNoUpper(value, bl) == MathMax(Zero, Number(value))

\* updatedValue of updateLoad for the field 'position'.
ClampPosition(value, bl) == MathMax(Zero, MathMin(bl, Number(value)))

\* updatedValue of updateLoad for the field 'length'.
ClampLength(load, value, bl) ==
    MathMax(Zero, MathMin(Sub(bl, load.position), Number(value)))

\* The load updateLoad puts in the place of load; value is a type name for
\* the field 'type' and a number otherwise.
UpdatedLoad(load, field, value, bl) ==
    CASE field = "type" -> [load EXCEPT !.type = value]
      [] field = "position" ->
            [load EXCEPT !.position = Number(ClampPosition(value, bl))]
      [] field = "length" ->
            [load EXCEPT !.length = Number(ClampLength(load, value, bl))]
      [] field = "magnitude" -> [load EXCEPT !.magnitude = Number(value)]

updateLoad(id, field, value) ==
    /\ id \in Ids(loads)
    /\ loads' = [i \in DOMAIN loads |->
                    IF loads[i].id # id THEN loads[i]
                    ELSE UpdatedLoad(loads[i], field, value, beamLength)]
    /\ UNCHANGED <<beamLength, startSupportPosition, endSupportPosition,
                   startSupport, endSupport>>

\* The length input is drawn for a distributed load only, line 588.
LengthShown(id) ==
    \E i \in DOMAIN loads : loads[i].id = id /\ loads[i].type = "distributed"

\* onClick of a load's remove button: loads.filter(l => l.id !== load.id)
removeLoad(id) ==
    /\ id \in Ids(loads)
    /\ LET keep(l) == l.id # id IN loads' = SelectSeq(loads, keep)
    /\ UNCHANGED <<beamLength, startSupportPosition, endSupportPosition,
                   startSupport, endSupport>>

\* calculateReactions, lines 230-242: the fixed-end moments of loads[i..].
RECURSIVE FixedEndMoments(_, _, _, _, _)
FixedEndMoments(ls, i, sA, sB, acc) ==
    IF i > Len(ls) THEN acc
    ELSE LET load == ls[i]
             span == Sub(sB, sA)
             a == Sub(load.position, sA)
             b == Sub(sB, load.position)
             FEM == Div(Mul(Mul(Mul(load.magnitude, a), b), b), Mul(span, span))
         IN  IF load.type = "point" /\ Ge(a, Zero) /\ Ge(b, Zero)
             THEN FixedEndMoments(ls, i + 1, sA, sB,
                    [momentA |-> Add(acc.momentA, FEM),
                     momentB |-> Add(acc.momentB, Mul(Neg(FEM), Div(a, b)))])
             ELSE FixedEndMoments(ls, i + 1, sA, sB, acc)

\* LoadReactions with the two reactions of a point load exchanged.
LoadReactionsSwapped(load, sA, sB, acc) ==
    LET span == Sub(sB, sA)
        force == MathAbs(load.magnitude)
        pointB == Div(Mul(force, Sub(load.position, sA)), span)
    IN  IF Lt(load.position, sA) \/ Gt(load.position, sB) THEN acc
        ELSE IF load.type = "point"
        THEN [reactionA |-> pointB, reactionB |-> Sub(force, pointB)]
        ELSE acc

\* LoadReactions with the signed magnitude as the force.
LoadReactionsSigned(load, sA, sB, acc) ==
    LET span == Sub(sB, sA)
        force == load.magnitude
        pointB == Div(Mul(force, Sub(load.position, sA)), span)
        startX == MathMax(load.position, sA)
        endX == MathMin(Add(load.position, load.length), sB)
        effectiveLength == Sub(endX, startX)
        totalForce == Mul(force, effectiveLength)
        centerOfForce == Sub(Add(startX, Div(effectiveLength, N(2))), sA)
        distB == Div(Mul(totalForce, centerOfForce), span)
        momB == Div(load.magnitude, span)
    IN  IF Lt(load.position, sA) \/ Gt(load.position, sB) THEN acc
        ELSE CASE load.type = "point" ->
                    [reactionA |-> Sub(force, pointB), reactionB |-> pointB]
               [] load.type = "distributed" ->
                    IF Truthy(load.length)
                    THEN [reactionA |-> Sub(totalForce, distB), reactionB |-> distB]
                    ELSE acc
               [] load.type = "moment" ->
                    [reactionA |-> Neg(momB), reactionB |-> momB]
               [] OTHER -> acc

\* LoadReactions with the reactions of the loads added up.
LoadReactionsSummed(load, sA, sB, acc) ==
    LET span == Sub(sB, sA)
        force == MathAbs(load.magnitude)
        pointB == Div(Mul(force, Sub(load.position, sA)), span)
        startX == MathMax(load.position, sA)
        endX == MathMin(Add(load.position, load.length), sB)
        effectiveLength == Sub(endX, startX)
        totalForce == Mul(force, effectiveLength)
        centerOfForce == Sub(Add(startX, Div(effectiveLength, N(2))), sA)
        distB == Div(Mul(totalForce, centerOfForce), span)
        momB == Div(load.magnitude, span)
        plus(a, b) == [reactionA |-> Add(acc.reactionA, a),
                       reactionB |-> Add(acc.reactionB, b)]
    IN  IF Lt(load.position, sA) \/ Gt(load.position, sB) THEN acc
        ELSE CASE load.type = "point" -> plus(Sub(force, pointB), pointB)
               [] load.type = "distributed" ->
                    IF Truthy(load.length)
                    THEN plus(Sub(totalForce, distB), distB)
                    ELSE acc
               [] load.type = "moment" -> plus(Neg(momB), momB)
               [] OTHER -> acc

\* calculateReactions, lines 246-270: what one load does to the two reactions.
LoadReactions(load, sA, sB, acc) ==
    LET span == Sub(sB, sA)
        relativePosition == Sub(load.position, sA)
        force == MathAbs(load.magnitude)
        pointB == Div(Mul(force, relativePosition), span)
        startX == MathMax(load.position, sA)
        endX == MathMin(Add(load.position, load.length), sB)
        effectiveLength == Sub(endX, startX)
        totalForce == Mul(force, effectiveLength)
        centerOfForce == Sub(Add(startX, Div(effectiveLength, N(2))), sA)
        distB == Div(Mul(totalForce, centerOfForce), span)
        momB == Div(load.magnitude, span)
    IN  IF Lt(load.position, sA) \/ Gt(load.position, sB) THEN acc
        ELSE CASE load.type = "point" ->
                    [reactionA |-> Sub(force, pointB), reactionB |-> pointB]
               [] load.type = "distributed" ->
                    IF Truthy(load.length)
                    THEN [reactionA |-> Sub(totalForce, distB), reactionB |-> distB]
                    ELSE acc
               [] load.type = "moment" ->
                    [reactionA |-> Neg(momB), reactionB |-> momB]
               [] OTHER -> acc

\* calculateReactions, lines 245-271: loads.forEach over loads[i..].
RECURSIVE PrimaryReactions(_, _, _, _, _)
PrimaryReactions(ls, i, sA, sB, acc) ==
    IF i > Len(ls) THEN acc
    ELSE PrimaryReactions(ls, i + 1, sA, sB, LoadReactions(ls[i], sA, sB, acc))

\* calculateReactions, lines 273-284: the shift of force between the reactions.
Adjustment(m, span, kA, kB) ==
    IF kA = "fixed" /\ kB = "fixed" THEN Div(Sub(m.momentA, m.momentB), span)
    ELSE IF kA = "fixed" THEN Div(m.momentA, span)
    ELSE IF kB = "fixed" THEN Div(m.momentB, span)
    ELSE Zero

ZeroReactions ==
    [reactionA |-> Zero, reactionB |-> Zero, momentA |-> Zero, momentB |-> Zero]

\* NoSpan with the comparison strict.
NoSpanStrict(span) == Lt(span, Zero)

\* span <= 0 of line 228.
NoSpan(span) == Le(span, Zero)

\* RawReactions with the adjustment added to reactionA only.
RawReactionsOneSided(ls, sA, sB, kA, kB) ==
    LET span == Sub(sB, sA)
        m == IF kA = "fixed" \/ kB = "fixed"
             THEN FixedEndMoments(ls, 1, sA, sB, [momentA |-> Zero, momentB |-> Zero])
             ELSE [momentA |-> Zero, momentB |-> Zero]
        r == PrimaryReactions(ls, 1, sA, sB, [reactionA |-> Zero, reactionB |-> Zero])
        adj == Adjustment(m, span, kA, kB)
    IN  IF NoSpan(span) THEN ZeroReactions
        ELSE [reactionA |-> Add(r.reactionA, adj),
              reactionB |-> r.reactionB,
              momentA |-> m.momentA, momentB |-> m.momentB]

\* calculateReactions before the rounding of lines 286-291.
RawReactions(ls, sA, sB, kA, kB) ==
    LET span == Sub(sB, sA)
        m == IF kA = "fixed" \/ kB = "fixed"
             THEN FixedEndMoments(ls, 1, sA, sB, [momentA |-> Zero, momentB |-> Zero])
             ELSE [momentA |-> Zero, momentB |-> Zero]
        r == PrimaryReactions(ls, 1, sA, sB, [reactionA |-> Zero, reactionB |-> Zero])
        adj == Adjustment(m, span, kA, kB)
    IN  IF NoSpan(span) THEN ZeroReactions
        ELSE [reactionA |-> Add(r.reactionA, adj),
              reactionB |-> Sub(r.reactionB, adj),
              momentA |-> m.momentA, momentB |-> m.momentB]

calculateReactions(ls, sA, sB, kA, kB) ==
    LET r == RawReactions(ls, sA, sB, kA, kB)
    IN  [reactionA |-> ToFixed3(r.reactionA), reactionB |-> ToFixed3(r.reactionB),
         momentA |-> ToFixed3(r.momentA), momentB |-> ToFixed3(r.momentB)]

\* calculateReactions() of the current render.
Reactions ==
    calculateReactions(loads, startSupportPosition, endSupportPosition,
                       startSupport, endSupport)

\* The other components' variables, at rest.
ValIdle == vBeamLength = Zero /\ vLoads = <<>>
PureIdle == arg = <<>> /\ ret = <<>>
MainIdle == MainInit
RenderIdle ==
    /\ beamHeight = Q(1, 5) /\ beamWidth = Q(1, 10)
    /\ reactions = ZeroReactions /\ momentEnd = N(4) /\ pc = "unmounted"
    /\ closure = [loads |-> <<>>, calls |-> <<>>]

Tick == steps < MaxSteps /\ steps' = steps + 1

Init == MainInit /\ ValIdle /\ PureIdle /\ RenderIdle /\ steps = 0

MainStep(A) == Tick /\ A /\ UNCHANGED <<valVars, pureVars, renderVars>>

Next ==
    \/ MainStep(\E v \in LengthInputs : handleBeamLengthChange(v))
    \/ MainStep(\E v \in SupportInputs, isStart \in BOOLEAN :
                    handleSupportPositionChange(v, isStart))
    \/ MainStep(\E k \in Kinds : setStartSupport(k))
    \/ MainStep(\E k \in Kinds : setEndSupport(k))
    \/ MainStep(addLoad)
    \/ MainStep(\E id \in Ids(loads), t \in LoadTypes : updateLoad(id, "type", t))
    \/ MainStep(\E id \in Ids(loads), v \in PositionInputs :
                    updateLoad(id, "position", v))
    \/ MainStep(\E id \in Ids(loads), v \in MagnitudeInputs :
                    updateLoad(id, "magnitude", v))
    \/ MainStep(\E id \in Ids(loads), v \in LengthFieldInputs :
                    LengthShown(id) /\ updateLoad(id, "length", v))
    \/ MainStep(\E id \in Ids(loads) : removeLoad(id))

Spec == Init /\ [][Next]_vars

----------------------------------------------------------------------------
(* The validating component, components/BeamAnalysis.tsx *)

LoadTypesV == {"point", "distributed", "moment"}

\* Bound of the model: at most this many handler invocations of the
\* validating component are explored.
MaxStepsV == 4

\* Values typed into its inputs.
LengthInputsV == {NaN, Zero, N(2), N(3), N(8)}
PositionInputsV == {NaN, N(-1), N(1), N(4)}
MagnitudeInputsV == {NaN, N(7)}
LengthFieldInputsV == {NaN, N(-1), N(1), N(4)}

InitV ==
    /\ vBeamLength = N(5)
    /\ vLoads = <<[id |-> 1, type |-> "point", position |-> N(2),
                   magnitude |-> N(-10), length |-> Zero],
                  [id |-> 2, type |-> "distributed", position |-> N(1),
                   magnitude |-> N(-5), length |-> N(2)],
                  [id |-> 3, type |-> "moment", position |-> N(3),
                   magnitude |-> N(15), length |-> Zero]>>
    /\ MainIdle /\ PureIdle /\ RenderIdle /\ steps = 0

validateBeamLengthV(value) == ~(isNaN(value) \/ Le(value, Zero))

\* validateLoad without the test that a distributed load fits the beam.
validateLoadNoFitV(load, bl) ==
    /\ ~(isNaN(load.position) \/ Lt(load.position, Zero) \/ Gt(load.position, bl))
    /\ ~isNaN(load.magnitude)
    /\ load.type = "distributed" => ~(isNaN(load.length) \/ Le(load.length, Zero))

\* validateLoadV without the test that the length is positive.
validateLoadNoLengthV(load, bl) ==
    /\ ~(isNaN(load.position) \/ Lt(load.position, Zero) \/ Gt(load.position, bl))
    /\ ~isNaN(load.magnitude)
    /\ load.type = "distributed" => ~Gt(Add(load.position, load.length), bl)

\* validateLoad of the component; beamLength is the one of the render.
validateLoadV(load, bl) ==
    /\ ~(isNaN(load.position) \/ Lt(load.position, Zero) \/ Gt(load.position, bl))
    /\ ~isNaN(load.magnitude)
    /\ load.type = "distributed" =>
            /\ ~(isNaN(load.length) \/ Le(load.length, Zero))
            /\ ~Gt(Add(load.position, load.length), bl)

\* The filter of lines 68-71: the loads that do not fit the new length.
NoLongerFits(load, value) ==
    \/ Gt(load.position, value)
    \/ load.type = "distributed" /\ Gt(Add(load.position, load.length), value)

\* The filter of lines 74-77: the loads that are kept.
StillFits(load, value) ==
    /\ Le(load.position, value)
    /\ load.type # "distributed" \/ Le(Add(load.position, load.length), value)

handleBeamLengthChangeV(value) ==
    /\ validateBeamLengthV(value)
    /\ vBeamLength' = value
    /\ LET drop(l) == NoLongerFits(l, value)
           keep(l) == StillFits(l, value)
       IN  vLoads' = IF Len(SelectSeq(vLoads, drop)) > 0
                     THEN SelectSeq(vLoads, keep)
                     ELSE vLoads

addLoadV ==
    /\ vLoads' = Append(vLoads,
                   [id |-> NewId(vLoads), type |-> "point", position |-> Zero,
                    magnitude |-> Zero, length |-> Zero])
    /\ UNCHANGED vBeamLength

\* updatedLoad of line 148.
UpdatedLoadV(load, field, value) ==
    CASE field = "type" -> [load EXCEPT !.type = value]
      [] field = "position" -> [load EXCEPT !.position = Number(value)]
      [] field = "magnitude" -> [load EXCEPT !.magnitude = Number(value)]
      [] field = "length" -> [load EXCEPT !.length = Number(value)]

\* updateLoad: a rejected update alerts and writes nothing, so the action is
\* enabled only for an update that validates.
updateLoadV(id, field, value) ==
    /\ id \in Ids(vLoads)
    /\ LET updatedLoads == [i \in DOMAIN vLoads |->
                              IF vLoads[i].id # id THEN vLoads[i]
                              ELSE UpdatedLoadV(vLoads[i], field, value)]
           found == CHOOSE i \in DOMAIN vLoads :
                        /\ updatedLoads[i].id = id
                        /\ \A j \in 1..(i - 1) : updatedLoads[j].id # id
       IN  /\ validateLoadV(updatedLoads[found], vBeamLength)
           /\ vLoads' = updatedLoads
    /\ UNCHANGED vBeamLength

removeLoadV(id) ==
    /\ id \in Ids(vLoads)
    /\ LET keep(l) == l.id # id IN vLoads' = SelectSeq(vLoads, keep)
    /\ UNCHANGED vBeamLength

\* The length input is drawn for a distributed load only, line 215.
LengthShownV(id) ==
    \E i \in DOMAIN vLoads :
        vLoads[i].id = id /\ vLoads[i].type = "distributed"

TickV == steps < MaxStepsV /\ steps' = steps + 1

ValStep(A) == TickV /\ A /\ UNCHANGED <<mainVars, pureVars, renderVars>>

NextV ==
    \/ ValStep(\E v \in LengthInputsV : handleBeamLengthChangeV(v))
    \/ ValStep(addLoadV)
    \/ ValStep(\E id \in Ids(vLoads), t \in LoadTypesV : updateLoadV(id, "type", t))
    \/ ValStep(\E id \in Ids(vLoads), v \in PositionInputsV :
                    updateLoadV(id, "position", v))
    \/ ValStep(\E id \in Ids(vLoads), v \in MagnitudeInputsV :
                    updateLoadV(id, "magnitude", v))
    \/ ValStep(\E id \in Ids(vLoads), v \in LengthFieldInputsV :
                    LengthShownV(id) /\ updateLoadV(id, "length", v))
    \/ ValStep(\E id \in Ids(vLoads) : removeLoadV(id))

SpecV == InitV /\ [][NextV]_vars

----------------------------------------------------------------------------
(* validateLoad of the utility module, lines 13-44 *)

\* The arguments it is applied to.
PositionArgs == {NaN, Neg(Infinity), N(-1), Zero, N(2), N(5), N(7), Infinity}
MagnitudeArgs == {NaN, Infinity, N(-3)}
LengthArgs == {Undefined, NaN, N(-1), Zero, N(2), N(4), Infinity}
BeamLengthArgs == {NaN, N(-1), Zero, N(5), Infinity}

validateLoad(load, bl) ==
    IF isNaN(load.position) \/ Lt(load.position, Zero) \/ Gt(load.position, bl)
    THEN [isValid |-> FALSE,
          message |-> <<"Load position must be between 0 and ", bl, " meters.">>]
    ELSE IF isNaN(load.magnitude)
    THEN [isValid |-> FALSE, message |-> <<"Load magnitude must be a number.">>]
    ELSE IF load.type = "distributed"
            /\ (isNaN(load.length) \/ Le(Number(load.length), Zero))
    THEN [isValid |-> FALSE,
          message |-> <<"Distributed load length must be positive.">>]
    ELSE IF load.type = "distributed"
            /\ Gt(Add(load.position, Number(load.length)), bl)
    THEN [isValid |-> FALSE,
          message |-> <<"Distributed load must fit within the beam length.">>]
    ELSE [isValid |-> TRUE, message |-> <<>>]

InitP ==
    /\ arg \in [load : [id : {1}, type : LoadTypes, position : PositionArgs,
                        magnitude : MagnitudeArgs, length : LengthArgs],
                beamLength : BeamLengthArgs]
    /\ ret = [called |-> FALSE]
    /\ MainIdle /\ ValIdle /\ RenderIdle /\ steps = 0

Call ==
    /\ ~ret.called
    /\ ret' = [called |-> TRUE, result |-> validateLoad(arg.load, arg.beamLength)]
    /\ UNCHANGED <<arg, steps, mainVars, valVars, renderVars>>

NextP == Call

SpecP == InitP /\ [][NextP]_vars

----------------------------------------------------------------------------
(* The main component: what a render draws, lines 183-218 and 295-437 *)

\* points of generateDiagramData.
points == 100

\* loads.forEach of calculateTorsion over loads[i..].
RECURSIVE TorsionSum(_, _, _, _)
TorsionSum(ls, i, x, torsion) ==
    IF i > Len(ls) THEN torsion
    ELSE IF ls[i].type # "torsion" \/ Gt(ls[i].position, x)
         THEN TorsionSum(ls, i + 1, x, torsion)
         ELSE TorsionSum(ls, i + 1, x, Add(torsion, ls[i].magnitude))

calculateTorsion(x, ls, sA, sB) ==
    IF Lt(x, sA) \/ Gt(x, sB) THEN Zero
    ELSE ToFixed3(TorsionSum(ls, 1, x, Zero))

\* loads.forEach of calculateShear: what one load takes from the shear at x.
ShearOfLoad(load, x, shear) ==
    LET endX == MathMin(x, Add(load.position, load.length))
        effectiveLength == Sub(endX, load.position)
    IN  IF Gt(load.position, x) THEN shear
        ELSE CASE load.type = "point" -> Sub(shear, load.magnitude)
               [] load.type = "distributed" ->
                    IF Truthy(load.length) /\ Gt(effectiveLength, Zero)
                    THEN Sub(shear, Mul(load.magnitude, effectiveLength))
                    ELSE shear
               [] OTHER -> shear

RECURSIVE ShearSum(_, _, _, _)
ShearSum(ls, i, x, shear) ==
    IF i > Len(ls) THEN shear
    ELSE ShearSum(ls, i + 1, x, ShearOfLoad(ls[i], x, shear))

\* calculateShear of a render whose closure holds the loads ls, the reactions
\* r and the support positions sA, sB.
calculateShear(x, ls, r, sA, sB) ==
    IF Lt(x, sA) \/ Gt(x, sB) THEN Zero
    ELSE ToFixed3(ShearSum(ls, 1, x, r.reactionA))

\* loads.forEach of calculateMoment: what one load takes from the moment at x.
MomentOfLoad(load, x, moment) ==
    LET endX == MathMin(x, Add(load.position, load.length))
        effectiveLength == Sub(endX, load.position)
        centroid == Add(load.position, Div(effectiveLength, N(2)))
    IN  IF Gt(load.position, x) THEN moment
        ELSE CASE load.type = "point" ->
                    Sub(moment, Mul(load.magnitude, Sub(x, load.position)))
               [] load.type = "distributed" ->
                    IF Truthy(load.length) /\ Gt(effectiveLength, Zero)
                    THEN Sub(moment, Mul(Mul(load.magnitude, effectiveLength),
                                         Sub(x, centroid)))
                    ELSE moment
               [] load.type = "moment" -> Sub(moment, load.magnitude)
               [] OTHER -> moment

RECURSIVE MomentSum(_, _, _, _)
MomentSum(ls, i, x, moment) ==
    IF i > Len(ls) THEN moment
    ELSE MomentSum(ls, i + 1, x, MomentOfLoad(ls[i], x, moment))

\* calculateMoment; sB is the end support position its closure holds.
calculateMoment(x, ls, r, sA, sB, kA) ==
    LET fromA == Mul(r.reactionA, Sub(x, sA))
        start == IF kA = "fixed" THEN Add(fromA, r.momentA) ELSE fromA
    IN  IF Lt(x, sA) \/ Gt(x, sB) THEN Zero
        ELSE ToFixed3(MomentSum(ls, 1, x, start))

\* The position of station i, line 392.
Station(i, bl) == ToFixed3(Mul(N(i), Div(bl, N(points))))

\* generateDiagramData: position, shear, moment and torsion of the stations
\* 0..points; sBm is the end support position calculateMoment holds.  The
\* stresses the code adds to a point are calculateStresses(x).
generateDiagramData(bl, ls, r, sA, sB, sBm, kA) ==
    [i \in 0..points |->
        LET x == Station(i, bl)
        IN  [position |-> x,
             shear |-> calculateShear(x, ls, r, sA, sB),
             moment |-> calculateMoment(x, ls, r, sA, sBm, kA),
             torsion |-> calculateTorsion(x, ls, sA, sB)]]

\* diagramData of the current render, line 437.
diagramData ==
    generateDiagramData(beamLength, loads, reactions, startSupportPosition,
                        endSupportPosition, momentEnd, startSupport)

\* Math.pow(x, k) for a natural k.
RECURSIVE MathPow(_, _)
MathPow(x, k) == IF k = 0 THEN N(1) ELSE Mul(x, MathPow(x, k - 1))

calculateSectionProperties(h, w) ==
    LET momentOfInertia == Div(Mul(w, MathPow(h, 3)), N(12))
        a == MathMax(w, h)
        b == MathMin(w, h)
        ratio == Div(b, a)
    IN  [area |-> MathMax(Q(1, 1000), Mul(h, w)),
         momentOfInertia |-> momentOfInertia,
         sectionModulus |-> Div(Mul(N(2), momentOfInertia), h),
         polarMomentOfInertia |->
            Div(Add(Mul(w, MathPow(h, 3)), Mul(h, MathPow(w, 3))), N(12)),
         torsionalConstant |->
            Mul(Mul(a, MathPow(b, 3)),
                Sub(Q(1, 3),
                    Mul(Mul(Q(21, 100), ratio),
                        Sub(N(1), Div(MathPow(ratio, 4), N(12))))))]

\* 4*10^6*v < (2r+1)^2: the square root of v lies below (r + 1/2)/1000.
RootBelow(v, r) == Lt(Mul(N(4000000), v), N((2 * r + 1) * (2 * r + 1)))

\* Some r >= hi with RootBelow(v, r).
RECURSIVE RootUpper(_, _)
RootUpper(v, hi) == IF RootBelow(v, hi) THEN hi ELSE RootUpper(v, 2 * hi + 1)

\* The least r in lo..hi with RootBelow(v, r), given RootBelow(v, hi): r/1000
\* is the thousandth nearest to the square root of a finite v >= 0.
RECURSIVE RootThousandths(_, _, _)
RootThousandths(v, lo, hi) ==
    IF lo = hi THEN lo
    ELSE LET mid == (lo + hi) \div 2
         IN  IF RootBelow(v, mid) THEN RootThousandths(v, lo, mid)
             ELSE RootThousandths(v, mid + 1, hi)

\* Number(Math.sqrt(v).toFixed(3))
SqrtFixed3(v) ==
    IF v = NaN \/ Lt(v, Zero) THEN NaN
    ELSE IF v.d = 0 THEN v
    ELSE Q(RootThousandths(v, 0, RootUpper(v, 0)), 1000)

\* calculateStresses from the moment, shear and torsion it computes at x.
StressesOf(moment, shear, torsion, h, w) ==
    LET sp == calculateSectionProperties(h, w)
        MPa == N(1000000)
        normalStress == Div(Div(MathAbs(moment), sp.sectionModulus), MPa)
        firstMoment == Div(Mul(Mul(w, h), h), N(8))
        shearStress == Div(Div(MathAbs(Mul(shear, firstMoment)),
                               Mul(sp.momentOfInertia, w)), MPa)
        maxTorsionalStress ==
            Div(Div(MathAbs(Mul(torsion, h)), Mul(N(2), sp.torsionalConstant)), MPa)
    IN  [normalStress |-> ToFixed3(normalStress),
         shearStress |-> ToFixed3(shearStress),
         torsionalStress |-> ToFixed3(maxTorsionalStress),
         vonMisesStress |->
            SqrtFixed3(Add(MathPow(normalStress, 2),
                           Mul(N(3), Add(MathPow(shearStress, 2),
                                         MathPow(maxTorsionalStress, 2)))))]

calculateStresses(x, h, w, ls, r, sA, sB, sBm, kA) ==
    StressesOf(calculateMoment(x, ls, r, sA, sBm, kA),
               calculateShear(x, ls, r, sA, sB),
               calculateTorsion(x, ls, sA, sB), h, w)

\* Bound of the model: at most this many handler invocations between renders
\* are explored.
MaxStepsR == 3

\* Values typed into the inputs.
LengthInputsR == {Q(1, 20), N(2)}
SupportInputsR == {N(1), N(2)}
LoadTypesR == {"distributed", "moment", "torsion"}
PositionInputsR == {N(1)}
MagnitudeInputsR == {N(20)}
LengthFieldInputsR == {N(2)}
HeightInputs == {Zero, Q(3, 10)}
WidthInputs == {Zero, Q(3, 10)}

\* The first render has been drawn with the initial reactions; its effect is
\* pending.
InitR ==
    /\ MainInit
    /\ beamHeight = Q(1, 5) /\ beamWidth = Q(1, 10)
    /\ reactions = ZeroReactions
    /\ momentEnd = N(4)
    /\ pc = "effect"
    /\ closure = [loads |-> <<>>, calls |-> <<>>]
    /\ ValIdle /\ PureIdle /\ steps = 0

setBeamHeight(v) == beamHeight' = v /\ UNCHANGED beamWidth

setBeamWidth(v) == beamWidth' = v /\ UNCHANGED beamHeight

\* The render that follows a handler.  useCallback keeps calculateMoment
\* unless one of its dependencies [loads, reactions, startSupportPosition,
\* startSupport] changed (newLoads: the handler called setLoads, which always
\* stores a new array); the effect runs again if calculateReactions was made
\* anew, that is if loads, a support position or a support kind changed.
RenderAfter(newLoads) ==
    /\ momentEnd' = IF \/ newLoads
                       \/ startSupportPosition' # startSupportPosition
                       \/ startSupport' # startSupport
                    THEN endSupportPosition'
                    ELSE momentEnd
    /\ pc' = IF \/ newLoads
                \/ startSupportPosition' # startSupportPosition
                \/ endSupportPosition' # endSupportPosition
                \/ startSupport' # startSupport
                \/ endSupport' # endSupport
             THEN "effect"
             ELSE "idle"
    /\ UNCHANGED reactions

TickR == steps < MaxStepsR /\ steps' = steps + 1

\* A handler of the load list, the beam length or the supports, and the
\* render it causes.
RenderStep(A, newLoads) ==
    /\ pc = "idle"
    /\ TickR
    /\ A
    /\ RenderAfter(newLoads)
    /\ UNCHANGED <<beamHeight, beamWidth, closure, valVars, pureVars>>

\* A handler of the section inputs, and the render it causes.
SectionStep(A) ==
    /\ pc = "idle"
    /\ TickR
    /\ A
    /\ UNCHANGED <<mainVars, reactions, momentEnd, pc, closure, valVars,
                   pureVars>>

\* Effect with the stored reactions among its dependencies: the render that
\* follows runs it again.
EffectAgain ==
    /\ pc = "effect"
    /\ reactions' = Reactions
    /\ momentEnd' = endSupportPosition
    /\ pc' = "effect"
    /\ UNCHANGED <<mainVars, beamHeight, beamWidth, closure, steps, valVars,
                   pureVars>>

\* useEffect, lines 406-408: setReactions(calculateReactions()), and the
\* render that follows, in which calculateMoment is made anew.
Effect ==
    /\ pc = "effect"
    /\ reactions' = Reactions
    /\ momentEnd' = endSupportPosition
    /\ pc' = "idle"
    /\ UNCHANGED <<mainVars, beamHeight, beamWidth, closure, steps, valVars,
                   pureVars>>

NextR ==
    \/ Effect
    \/ RenderStep(\E v \in LengthInputsR : handleBeamLengthChange(v), TRUE)
    \/ RenderStep(\E v \in SupportInputsR, isStart \in BOOLEAN :
                    handleSupportPositionChange(v, isStart), FALSE)
    \/ RenderStep(\E k \in Kinds : setStartSupport(k), FALSE)
    \/ RenderStep(\E k \in Kinds : setEndSupport(k), FALSE)
    \/ RenderStep(addLoad, TRUE)
    \/ RenderStep(\E id \in Ids(loads), t \in LoadTypesR :
                    updateLoad(id, "type", t), TRUE)
    \/ RenderStep(\E id \in Ids(loads), v \in PositionInputsR :
                    updateLoad(id, "position", v), TRUE)
    \/ RenderStep(\E id \in Ids(loads), v \in MagnitudeInputsR :
                    updateLoad(id, "magnitude", v), TRUE)
    \/ RenderStep(\E id \in Ids(loads), v \in LengthFieldInputsR :
                    LengthShown(id) /\ updateLoad(id, "length", v), TRUE)
    \/ RenderStep(\E id \in Ids(loads) : removeLoad(id), TRUE)
    \/ SectionStep(\E v \in HeightInputs : setBeamHeight(v))
    \/ SectionStep(\E v \in WidthInputs : setBeamWidth(v))

SpecR == InitR /\ [][NextR]_vars

----------------------------------------------------------------------------
(* The moment-area variant, unnamed/part_003: the calls a diagram makes *)

\* points of its generateDiagramData.
points3 == 100

\* Bound of the model: the number of nested calls the call stack holds; one
\* call more raises a RangeError.
MaxCallDepth == 4

\* arg holds the support kinds of the render; ret holds the station the
\* diagram has reached and the stack of calculateDeflection calls, each frame
\* at the line it stands on.
InitD ==
    /\ arg \in [startSupport : Kinds, endSupport : Kinds]
    /\ ret = [at |-> "station", i |-> 0, stack |-> <<>>]
    /\ MainIdle /\ ValIdle /\ RenderIdle /\ steps = 0

\* generateDiagramData, lines 203-211: the callback of station i computes
\* shear and moment, which loop over the loads, and calls calculateDeflection.
generateDiagramData3 ==
    /\ ret.at = "station"
    /\ ret' = [ret EXCEPT !.at = "deflection", !.stack = <<"line177">>]
    /\ UNCHANGED <<arg, steps, mainVars, valVars, renderVars>>

\* ret after the innermost call has returned: the diagram goes on to the next
\* station, or the calling frame goes on at line 193.
Returned3 ==
    LET rest == SubSeq(ret.stack, 1, Len(ret.stack) - 1)
    IN  IF rest # <<>> THEN [ret EXCEPT !.stack = rest]
        ELSE IF ret.i = points3 THEN [at |-> "done", i |-> ret.i, stack |-> <<>>]
        ELSE [at |-> "station", i |-> ret.i + 1, stack |-> <<>>]

\* calculateDeflection, lines 169-198: the innermost frame runs to its next
\* call or to its return.  The loops of lines 177-181 and 186-190 and
\* calculateSlope make numPoints passes each and call only calculateMoment.
calculateDeflection3 ==
    /\ ret.at = "deflection"
    /\ LET top == ret.stack[Len(ret.stack)]
           rest == SubSeq(ret.stack, 1, Len(ret.stack) - 1)
       IN  ret' = IF /\ top = "line177"
                     /\ arg.startSupport # "fixed"
                     /\ arg.endSupport = "fixed"
                  THEN \* line 192: calculateDeflection(beamLength)
                       IF Len(ret.stack) = MaxCallDepth
                       THEN [ret EXCEPT !.at = "RangeError"]
                       ELSE [ret EXCEPT
                                !.stack = rest \o <<"line192", "line177">>]
                  ELSE Returned3
    /\ UNCHANGED <<arg, steps, mainVars, valVars, renderVars>>

NextD == generateDiagramData3 \/ calculateDeflection3

SpecD == InitD /\ [][NextD]_vars

----------------------------------------------------------------------------
(* The conjugate-beam variant, unnamed/part_002: deflection *)

\* numPoints of calculateConjugateReactions, calculateDeflection and
\* calculateSlope.
numPoints2 == 1000

\* E * I of calculateMEI: 200e9 * 8.33e-6.
FlexuralRigidity == N(1666000)

\* The decimal digits of rest/d after the point, k of them, as an integer,
\* and what is left of rest: long division, one digit a pass.
RECURSIVE DecimalDigits(_, _, _, _)
DecimalDigits(rest, d, k, acc) ==
    IF k = 0 THEN [digits |-> acc, rest |-> rest]
    ELSE DecimalDigits((10 * rest) % d, d, k - 1, 10 * acc + (10 * rest) \div d)

\* Number(x.toFixed(6)): the nearest millionth, a tie away from zero.
ToFixed6(x) ==
    IF x.d = 0 THEN x
    ELSE LET whole == Abs(x.n) \div x.d
             frac == DecimalDigits(Abs(x.n) % x.d, x.d, 6, 0)
             up == IF 2 * frac.rest >= x.d THEN 1 ELSE 0
         IN  Norm(Sgn(x.n) * (1000000 * whole + frac.digits + up), 1000000)

\* calculateReactions of the variant, lines 39-56: loads.forEach over
\* loads[i..]; the reactions add up over the loads.
RECURSIVE PrimaryReactions2(_, _, _, _, _)
PrimaryReactions2(ls, i, sA, sB, acc) ==
    IF i > Len(ls) THEN acc
    ELSE LET load == ls[i]
             span == Sub(sB, sA)
             force == MathAbs(load.magnitude)
             pointB == Div(Mul(force, Sub(load.position, sA)), span)
             distributedForce == Mul(force, load.length)
             centerOfLoad == Add(load.position, Div(load.length, N(2)))
             distB == Div(Mul(distributedForce, Sub(centerOfLoad, sA)), span)
             momB == Div(load.magnitude, span)
             next ==
                CASE load.type = "point" ->
                        [reactionA |-> Add(acc.reactionA, Sub(force, pointB)),
                         reactionB |-> Add(acc.reactionB, pointB)]
                  [] load.type = "distributed" ->
                        [reactionA |-> Add(acc.reactionA,
                                           Sub(distributedForce, distB)),
                         reactionB |-> Add(acc.reactionB, distB)]
                  [] load.type = "moment" ->
                        [reactionA |-> Sub(acc.reactionA, momB),
                         reactionB |-> Add(acc.reactionB, momB)]
         IN  PrimaryReactions2(ls, i + 1, sA, sB, next)

\* calculateReactions of the variant, lines 35-63.
calculateReactions2(ls, sA, sB, kA, kB) ==
    LET r == PrimaryReactions2(ls, 1, sA, sB,
                               [reactionA |-> Zero, reactionB |-> Zero])
        rA == IF kA = "fixed" THEN Neg(r.reactionB) ELSE r.reactionA
        rB == IF kB = "roller" THEN Zero ELSE r.reactionB
    IN  [reactionA |-> ToFixed3(rA), reactionB |-> ToFixed3(rB)]

\* calculateMoment, lines 133-156: what one load takes from the moment at x.
MomentOfLoad2(load, x, moment) ==
    LET effectiveLength == MathMin(Sub(x, load.position), load.length)
        centroid == Add(load.position, Div(effectiveLength, N(2)))
    IN  IF ~Gt(x, load.position) THEN moment
        ELSE CASE load.type = "point" ->
                    Sub(moment, Mul(MathAbs(load.magnitude),
                                    Sub(x, load.position)))
               [] load.type = "distributed" ->
                    Sub(moment, Mul(Mul(MathAbs(load.magnitude), effectiveLength),
                                    Sub(x, centroid)))
               [] load.type = "moment" -> Sub(moment, load.magnitude)

\* loads.forEach over loads[i..]; beyond selects the loop of lines 160-179,
\* which takes only the loads right of the end support.
RECURSIVE MomentSum2(_, _, _, _, _, _)
MomentSum2(ls, i, x, sB, beyond, moment) ==
    IF i > Len(ls) THEN moment
    ELSE IF beyond /\ ~Gt(ls[i].position, sB)
         THEN MomentSum2(ls, i + 1, x, sB, beyond, moment)
         ELSE MomentSum2(ls, i + 1, x, sB, beyond,
                         MomentOfLoad2(ls[i], x, moment))

\* calculateMoment of the variant, lines 122-183; c is the state of the
\* render: beamLength, loads, reactions, the support positions and kinds.
calculateMoment2(x, c) ==
    LET fromA == IF Ge(x, c.startSupportPosition)
                 THEN Mul(c.reactions.reactionA, Sub(x, c.startSupportPosition))
                 ELSE Zero
        fromB == IF Ge(x, c.endSupportPosition)
                 THEN Mul(c.reactions.reactionB, Sub(x, c.endSupportPosition))
                 ELSE Zero
    IN  IF Gt(x, c.endSupportPosition)
        THEN ToFixed3(MomentSum2(c.loads, 1, x, c.endSupportPosition, TRUE, Zero))
        ELSE ToFixed3(MomentSum2(c.loads, 1, x, c.endSupportPosition, FALSE,
                                 Add(fromA, fromB)))

calculateMEI2(x, c) == Div(calculateMoment2(x, c), FlexuralRigidity)

\* dx and the station xi of the three integration loops.
Dx2(c) == Div(c.beamLength, N(numPoints2))
Xi2(i, c) == Mul(N(i), Dx2(c))

\* calculateConjugateReactions, lines 209-214: the passes lo..hi of the loop.
RECURSIVE ConjugateTotals(_, _, _)
ConjugateTotals(c, lo, hi) ==
    IF lo = hi
    THEN LET mei == calculateMEI2(Xi2(lo, c), c)
         IN  [totalLoad |-> Mul(mei, Dx2(c)),
              totalMoment |-> Mul(Mul(mei, Xi2(lo, c)), Dx2(c))]
    ELSE LET mid == (lo + hi) \div 2
             left == ConjugateTotals(c, lo, mid)
             right == ConjugateTotals(c, mid + 1, hi)
         IN  [totalLoad |-> Add(left.totalLoad, right.totalLoad),
              totalMoment |-> Add(left.totalMoment, right.totalMoment)]

\* calculateConjugateReactions, lines 202-255.
calculateConjugateReactions(c) ==
    LET t == ConjugateTotals(c, 0, numPoints2)
        totalLoad == t.totalLoad
        totalMoment == t.totalMoment
        half == Div(totalLoad, N(2))
    IN  IF c.startSupport = "fixed" /\ c.endSupport = "fixed"
        THEN [Ra |-> half, Rb |-> half,
              Ma |-> Div(Neg(totalMoment), N(2)),
              Mb |-> Div(Neg(totalMoment), N(2))]
        ELSE IF c.startSupport = "fixed" /\ c.endSupport = "roller"
        THEN [Ra |-> totalLoad, Rb |-> Zero,
              Ma |-> Add(Neg(totalMoment),
                         Div(Mul(totalLoad, c.beamLength), N(2))),
              Mb |-> Zero]
        ELSE IF c.startSupport = "fixed"
        THEN [Ra |-> totalLoad, Rb |-> Zero,
              Ma |-> Add(Neg(totalMoment),
                         Div(Mul(Mul(totalLoad, c.beamLength), N(3)), N(4))),
              Mb |-> Zero]
        ELSE IF c.endSupport = "fixed"
        THEN [Ra |-> totalLoad, Rb |-> Zero, Ma |-> Zero,
              Mb |-> Sub(totalMoment,
                         Div(Mul(Mul(totalLoad, c.beamLength), N(3)), N(4)))]
        ELSE [Ra |-> half, Rb |-> half, Ma |-> Zero, Mb |-> Zero]

\* calculateSlope, lines 301-307: the passes lo..hi of the loop.
RECURSIVE SlopeSum(_, _, _, _)
SlopeSum(c, x, lo, hi) ==
    IF lo = hi
    THEN IF Le(Xi2(lo, c), x) THEN Mul(calculateMEI2(Xi2(lo, c), c), Dx2(c))
         ELSE Zero
    ELSE LET mid == (lo + hi) \div 2
         IN  Add(SlopeSum(c, x, lo, mid), SlopeSum(c, x, mid + 1, hi))

\* calculateSlope of the variant, lines 295-317; cr is the result of
\* calculateConjugateReactions().
calculateSlope2(x, c, cr) ==
    LET slope == SlopeSum(c, x, 0, numPoints2)
        atStart == IF c.startSupport = "fixed" THEN Sub(slope, cr.Ra) ELSE slope
    IN  IF c.endSupport = "fixed" THEN Add(atStart, cr.Rb) ELSE atStart

\* calculateDeflection, lines 265-279: the passes lo..hi of the loop.
RECURSIVE DeflectionSum(_, _, _, _, _)
DeflectionSum(c, cr, x, lo, hi) ==
    IF lo = hi
    THEN LET xi == Xi2(lo, c)
             fromRa == Mul(Mul(cr.Ra, xi), Dx2(c))
             fromMa == IF c.startSupport = "fixed" THEN Mul(cr.Ma, Dx2(c))
                       ELSE Zero
             area == Mul(Mul(calculateMEI2(xi, c), Sub(x, xi)), Dx2(c))
         IN  IF Le(xi, x) THEN Sub(Add(fromRa, fromMa), area) ELSE Zero
    ELSE LET mid == (lo + hi) \div 2
         IN  Add(DeflectionSum(c, cr, x, lo, mid),
                 DeflectionSum(c, cr, x, mid + 1, hi))

\* calculateDeflection of the variant, lines 258-292.
calculateDeflection2(x, c) ==
    LET cr == calculateConjugateReactions(c)
        swept == DeflectionSum(c, cr, x, 0, numPoints2)
        atStart == IF c.startSupport = "fixed"
                   THEN Sub(swept, Mul(calculateSlope2(Zero, c, cr), x))
                   ELSE swept
        atEnd == IF c.endSupport = "fixed"
                 THEN Sub(atStart, Mul(calculateSlope2(c.beamLength, c, cr),
                                       Sub(c.beamLength, x)))
                 ELSE atStart
    IN  ToFixed6(atEnd)

\* The loads the deflection is computed for, one at a time: the initial
\* point load at mid-span with another magnitude.  The magnitudes are
\* multiples of 8.33 * 10^4, for which moment / (E * I) is a short decimal.
MagnitudeArgs2 == {N(-83300), N(-166600), N(-333200), N(-416500)}
LoadArgs2 ==
    {[id |-> 1, type |-> "point", position |-> Q(5, 2), magnitude |-> m,
      length |-> Zero] : m \in MagnitudeArgs2}

\* The state of a render of the variant after its effect has stored the
\* reactions: the initial beam and supports, the load and the kinds of a.
RenderState2(a) ==
    [beamLength |-> N(5), loads |-> <<a.load>>,
     startSupportPosition |-> Zero, endSupportPosition |-> N(5),
     startSupport |-> a.startSupport, endSupport |-> a.endSupport,
     reactions |-> calculateReactions2(<<a.load>>, Zero, N(5), a.startSupport,
                                       a.endSupport)]

\* arg holds the load and the kinds; ret records which of the two calls the
\* render has made.
InitC ==
    /\ arg \in [startSupport : Kinds, endSupport : Kinds, load : LoadArgs2]
    /\ ret = [atStart |-> FALSE, atEnd |-> FALSE]
    /\ MainIdle /\ ValIdle /\ RenderIdle /\ steps = 0

\* The value of calculateDeflection(startSupportPosition) in the render.
deflectionAtStart ==
    calculateDeflection2(RenderState2(arg).startSupportPosition,
                         RenderState2(arg))

\* The value of calculateDeflection(endSupportPosition) in the render.
deflectionAtEnd ==
    calculateDeflection2(RenderState2(arg).endSupportPosition, RenderState2(arg))

\* The call calculateDeflection(startSupportPosition).
DeflectionAtStart ==
    /\ ~ret.atStart
    /\ ret' = [ret EXCEPT !.atStart = TRUE]
    /\ UNCHANGED <<arg, steps, mainVars, valVars, renderVars>>

\* The call calculateDeflection(endSupportPosition).
DeflectionAtEnd ==
    /\ ~ret.atEnd
    /\ ret' = [ret EXCEPT !.atEnd = TRUE]
    /\ UNCHANGED <<arg, steps, mainVars, valVars, renderVars>>

NextC == DeflectionAtStart \/ DeflectionAtEnd

SpecC == InitC /\ [][NextC]_vars

----------------------------------------------------------------------------
(* The main component: the load handlers as closures of a render, lines   *)
(* 411-435 and 602.  A handler computes the new list from the 'loads' of  *)
(* the render that created it and hands it to setLoads; the list it       *)
(* passes replaces whatever an earlier handler of the same render passed  *)

\* Handler invocations within one render.
MaxCalls == 2

\* Handler invocations in all.
MaxStepsB == 4

PositionInputsB == {N(-1), N(3)}
MagnitudeInputsB == {N(20)}
LengthFieldInputsB == {N(2)}
LoadTypesB == {"distributed", "moment"}

\* The list addLoad passes to setLoads when its closure holds ls.
LoadsAdded(ls, bl) ==
    Append(ls, [id |-> NewId(ls), type |-> "point",
                position |-> Div(bl, N(2)),
                magnitude |-> N(-10), length |-> Undefined])

\* The list updateLoad passes to setLoads when its closure holds ls.
LoadsUpdated(ls, id, field, value, bl) ==
    [i \in DOMAIN ls |->
        IF ls[i].id # id THEN ls[i]
        ELSE UpdatedLoad(ls[i], field, value, bl)]

\* The list the remove button passes to setLoads when its closure holds ls.
LoadsRemoved(ls, id) ==
    LET keep(l) == l.id # id IN SelectSeq(ls, keep)

\* The list a handler call passes to setLoads when its closure holds ls.
LoadsAfter(call, ls, bl) ==
    CASE call.op = "addLoad" -> LoadsAdded(ls, bl)
      [] call.op = "updateLoad" ->
            LoadsUpdated(ls, call.id, call.field, call.value, bl)
      [] call.op = "remove" -> LoadsRemoved(ls, call.id)

\* The first render: the handlers hold the initial loads.
InitB ==
    /\ MainInit
    /\ closure = [loads |-> loads, calls |-> <<>>]
    /\ beamHeight = Q(1, 5) /\ beamWidth = Q(1, 10)
    /\ reactions = ZeroReactions /\ momentEnd = N(4) /\ pc = "unmounted"
    /\ ValIdle /\ PureIdle /\ steps = 0

\* A handler of the current render is invoked: setLoads(list computed from
\* the loads of the closure).
Invoke(call) ==
    /\ steps < MaxStepsB /\ Len(closure.calls) < MaxCalls
    /\ steps' = steps + 1
    /\ loads' = LoadsAfter(call, closure.loads, beamLength)
    /\ closure' = [closure EXCEPT !.calls = Append(@, call)]
    /\ UNCHANGED <<beamLength, startSupportPosition, endSupportPosition,
                   startSupport, endSupport, beamHeight, beamWidth, reactions,
                   momentEnd, pc, valVars, pureVars>>

\* The render that follows: its handlers hold the stored list.
Rerender ==
    /\ closure.calls # <<>>
    /\ closure' = [loads |-> loads, calls |-> <<>>]
    /\ UNCHANGED <<mainVars, beamHeight, beamWidth, reactions, momentEnd, pc,
                   steps, valVars, pureVars>>

\* The buttons and inputs drawn for the loads of the current render.
NextB ==
    \/ Invoke([op |-> "addLoad"])
    \/ \E id \in Ids(closure.loads) : Invoke([op |-> "remove", id |-> id])
    \/ \E id \in Ids(closure.loads), t \in LoadTypesB :
            Invoke([op |-> "updateLoad", id |-> id, field |-> "type",
                    value |-> t])
    \/ \E id \in Ids(closure.loads), v \in PositionInputsB :
            Invoke([op |-> "updateLoad", id |-> id, field |-> "position",
                    value |-> v])
    \/ \E id \in Ids(closure.loads), v \in MagnitudeInputsB :
            Invoke([op |-> "updateLoad", id |-> id, field |-> "magnitude",
                    value |-> v])
    \/ \E i \in DOMAIN closure.loads, v \in LengthFieldInputsB :
            /\ closure.loads[i].type = "distributed"
            /\ Invoke([op |-> "updateLoad", id |-> closure.loads[i].id,
                       field |-> "length", value |-> v])
    \/ Rerender

SpecB == InitB /\ [][NextB]_vars

----------------------------------------------------------------------------
(* The main component: calculateReactions and calculateMoment as functions *)
(* of the state a render holds, lines 221-292 and 323-353                  *)

\* A load of the list.
LoadArg(id, type, position, magnitude, length) ==
    [id |-> id, type |-> type, position |-> position, magnitude |-> magnitude,
     length |-> length]

\* Beam length and support positions: the initial beam with the supports at
\* its ends, at 0 and 4 (the initial ones) and at 1 and 4, and a beam of
\* length 3 with the supports at its ends.
GeometryArgs ==
    {[beamLength |-> N(5), startSupportPosition |-> Zero,
      endSupportPosition |-> N(5)],
     [beamLength |-> N(5), startSupportPosition |-> Zero,
      endSupportPosition |-> N(4)],
     [beamLength |-> N(5), startSupportPosition |-> N(1),
      endSupportPosition |-> N(4)],
     [beamLength |-> N(3), startSupportPosition |-> Zero,
      endSupportPosition |-> N(3)]}

\* Point loads, the tiny magnitude -0.0001 among them.
PointArgs(id) ==
    {LoadArg(id, "point", p, m, Undefined) :
        p \in {Zero, N(1), Q(3, 2), Q(5, 2), N(4), N(5)},
        m \in {N(50), N(20), N(-10), Q(-1, 10000)}}

\* Distributed loads: position and length s, the length 0 included, and
\* the tiny magnitude -0.0001 among the magnitudes.
DistributedArgs(id) ==
    {LoadArg(id, "distributed", s[1], m, s[2]) :
        s \in {<<Zero, N(5)>>, <<Zero, N(3)>>, <<Zero, N(2)>>, <<N(1), N(2)>>,
               <<N(2), Zero>>},
        m \in {N(-5), N(20), Q(-1, 10000)}}

MomentArgs(id) ==
    {LoadArg(id, "moment", p, N(20), Undefined) : p \in {N(1), Q(5, 2)}}

TorsionArgs(id) == {LoadArg(id, "torsion", Q(5, 2), N(20), Undefined)}

\* The lists of two loads.
PairArgs ==
    {<<k, l>> :
        k \in {LoadArg(1, "point", Q(5, 2), N(50), Undefined),
               LoadArg(1, "distributed", Zero, N(-5), N(3)),
               LoadArg(1, "moment", N(1), N(20), Undefined),
               LoadArg(1, "torsion", Q(5, 2), N(20), Undefined)},
        l \in {LoadArg(2, "point", Q(5, 2), N(-10), Undefined),
               LoadArg(2, "point", Zero, N(20), Undefined),
               LoadArg(2, "torsion", Q(5, 2), N(20), Undefined),
               LoadArg(2, "distributed", N(2), N(20), Zero),
               LoadArg(2, "moment", Q(5, 2), N(20), Undefined)}}

LoadListArgs ==
    {<<>>}
    \cup {<<l>> : l \in PointArgs(1) \cup DistributedArgs(1) \cup MomentArgs(1)
                         \cup TorsionArgs(1)}
    \cup PairArgs

\* The loads lie on the beam, as the handlers leave them.
OnBeam(load, bl) ==
    /\ Ge(load.position, Zero) /\ Le(load.position, bl)
    /\ load.type = "distributed" => Le(Add(load.position, load.length), bl)

\* arg is the state of the render; ret records which of the two functions
\* the render has called.
InitF ==
    /\ arg \in {a \in [geometry : GeometryArgs, startSupport : Kinds,
                       endSupport : Kinds, loads : LoadListArgs] :
                  \A i \in 1..Len(a.loads) :
                      OnBeam(a.loads[i], a.geometry.beamLength)}
    /\ ret = [reactions |-> FALSE, moment |-> FALSE]
    /\ MainIdle /\ ValIdle /\ RenderIdle /\ steps = 0

\* The value of calculateReactions() in the render.
reactionsF ==
    calculateReactions(arg.loads, arg.geometry.startSupportPosition,
                       arg.geometry.endSupportPosition, arg.startSupport,
                       arg.endSupport)

\* The value of calculateMoment(x) in a render that holds these reactions.
momentF(x) ==
    calculateMoment(x, arg.loads, reactionsF, arg.geometry.startSupportPosition,
                    arg.geometry.endSupportPosition, arg.startSupport)

\* The effect's call of calculateReactions.
CalculateReactions ==
    /\ ~ret.reactions
    /\ ret' = [ret EXCEPT !.reactions = TRUE]
    /\ UNCHANGED <<arg, steps, mainVars, valVars, renderVars>>

\* The calls of calculateMoment by the render that follows.
CalculateMoment ==
    /\ ret.reactions /\ ~ret.moment
    /\ ret' = [ret EXCEPT !.moment = TRUE]
    /\ UNCHANGED <<arg, steps, mainVars, valVars, renderVars>>

NextF == CalculateReactions \/ CalculateMoment

SpecF == InitF /\ [][NextF]_vars

----------------------------------------------------------------------------
(* Claims about the main component *)

Hundredth == Q(1, 100)

\* The data-model invariants of the supports.
SupportsOrdered ==
    /\ Le(Zero, startSupportPosition)
    /\ Lt(startSupportPosition, endSupportPosition)
    /\ Le(endSupportPosition, beamLength)

PositionInBeam(load, bl) == Le(Zero, load.position) /\ Le(load.position, bl)

DistributedFits(load, bl) ==
    load.type = "distributed" =>
        /\ Gt(Number(load.length), Zero)
        /\ Le(Add(load.position, Number(load.length)), bl)

LoadValidFor(load, bl) == PositionInBeam(load, bl) /\ DistributedFits(load, bl)

LoadsValidFor(ls, bl) == \A i \in DOMAIN ls : LoadValidFor(ls[i], bl)

DataModelOK == SupportsOrdered /\ LoadsValidFor(loads, beamLength)

\* The vertical force one load applies.
AppliedForce(load) ==
    CASE load.type = "point" -> load.magnitude
      [] load.type = "distributed" -> Mul(load.magnitude, Number(load.length))
      [] OTHER -> Zero

\* The moment one load applies about the point p.
AppliedMoment(load, p) ==
    CASE load.type = "point" -> Mul(load.magnitude, Sub(load.position, p))
      [] load.type = "distributed" ->
            Mul(Mul(load.magnitude, Number(load.length)),
                Sub(Add(load.position, Div(Number(load.length), N(2))), p))
      [] load.type = "moment" -> load.magnitude
      [] OTHER -> Zero

RECURSIVE SumForce(_, _)
SumForce(ls, i) ==
    IF i > Len(ls) THEN Zero ELSE Add(AppliedForce(ls[i]), SumForce(ls, i + 1))

RECURSIVE SumMoment(_, _, _)
SumMoment(ls, i, p) ==
    IF i > Len(ls) THEN Zero
    ELSE Add(AppliedMoment(ls[i], p), SumMoment(ls, i + 1, p))

TotalForce(ls) == SumForce(ls, 1)

TotalMoment(ls, p) == SumMoment(ls, 1, p)

Near(x, y, tol) == Le(MathAbs(Sub(x, y)), tol)

\* C1: whenever the data-model invariants hold, reactionA + reactionB equals
\* the total applied vertical load (point forces plus distributed magnitude
\* times length), up to the rounding to three decimals.
C1_ForceEquilibrium ==
    DataModelOK =>
        Near(Add(Reactions.reactionA, Reactions.reactionB), TotalForce(loads),
             Hundredth)

\* C2: whenever the data-model invariants hold, the moments of reactionB, of
\* the applied loads and of the fixed-end moments about the start support sum
\* to zero, and likewise those of reactionA about the end support, up to the
\* rounding; the fixed-end moments may enter with either sign.
C2_MomentEquilibrium ==
    DataModelOK =>
        LET span == Sub(endSupportPosition, startSupportPosition)
            r == Reactions
        IN  \E eA \in {-1, 1}, eB \in {-1, 1} :
                LET fixing == Add(Mul(N(eA), r.momentA), Mul(N(eB), r.momentB))
                IN  /\ Near(Add(Mul(r.reactionB, span), fixing),
                            TotalMoment(loads, startSupportPosition), Hundredth)
                    /\ Near(Add(Mul(r.reactionA, span), fixing),
                            Neg(TotalMoment(loads, endSupportPosition)), Hundredth)

\* C3: after any sequence of support-position and beam-length changes,
\* 0 <= startSupportPosition < endSupportPosition <= beamLength.
C3_SupportOrdering == SupportsOrdered

\* C4: every distributed load has a length greater than 0 and ends inside the
\* beam, position + length <= beamLength.
C4_DistributedFit == \A i \in DOMAIN loads : DistributedFits(loads[i], beamLength)

\* C5: a beam-length change applied to loads that are valid for the old
\* length leaves every load valid for the new length.
C5_LengthChangeKeepsValid ==
    [][(LoadsValidFor(loads, beamLength)
            /\ \E v \in LengthInputs : handleBeamLengthChange(v))
        => LoadsValidFor(loads', beamLength')]_vars

\* C6: every load's position lies in [0, beamLength].
C6_PositionInBeam == \A i \in DOMAIN loads : PositionInBeam(loads[i], beamLength)

\* C6 witness: the beam was shortened to 1 under a load, which was clipped to
\* the new end, and another load's position was clamped to 0.
C6_Witness ==
    /\ beamLength = N(1)
    /\ \E i, j \in DOMAIN loads :
            loads[i].position = N(1) /\ loads[j].position = Zero

\* C8: load ids are pairwise distinct, and the id of a load that addLoad
\* appends is greater than every id in the list it was appended to.
C8_UniqueIds ==
    /\ [](\A i, j \in DOMAIN loads : i # j => loads[i].id # loads[j].id)
    /\ [][Len(loads') = Len(loads) + 1 =>
            \A i \in DOMAIN loads : loads'[Len(loads')].id > loads[i].id]_vars

\* C8 witness: a load was added after the first one was removed.
C8_Witness == Len(loads) = 2 /\ loads[1].id = 2 /\ loads[2].id = 3

\* C10: with endSupportPosition - startSupportPosition <= 0, calculateReactions
\* returns four zeros whatever the loads and the support kinds.
C10_NoSpanNoReactions ==
    Le(Sub(endSupportPosition, startSupportPosition), Zero) =>
        \A kA \in Kinds, kB \in Kinds :
            calculateReactions(loads, startSupportPosition, endSupportPosition,
                               kA, kB) = ZeroReactions

\* C10 witness: the span is zero and a point load stands on the two supports.
C10_Witness ==
    /\ startSupportPosition = endSupportPosition
    /\ \E i \in DOMAIN loads :
            loads[i].type = "point" /\ loads[i].position = startSupportPosition

AllFinite(r) ==
    /\ IsFinite(r.reactionA) /\ IsFinite(r.reactionB)
    /\ IsFinite(r.momentA) /\ IsFinite(r.momentB)

FiniteLoadsInBeam ==
    \A i \in DOMAIN loads :
        /\ IsFinite(loads[i].magnitude)
        /\ IsFinite(loads[i].position)
        /\ PositionInBeam(loads[i], beamLength)

\* C11: with 0 <= sA < sB <= beamLength and every load of finite magnitude
\* and of finite position in [0, beamLength], the four values calculateReactions
\* returns are finite numbers for every pair of support kinds.
C11_ReactionsFinite ==
    (SupportsOrdered /\ FiniteLoadsInBeam) =>
        \A kA \in Kinds, kB \in Kinds :
            AllFinite(calculateReactions(loads, startSupportPosition,
                                         endSupportPosition, kA, kB))

\* C12: in the result of calculateReactions, momentA is nonzero only if the
\* start support is fixed and momentB is nonzero only if the end support is
\* fixed.
C12_MomentsAtFixedOnly ==
    /\ Reactions.momentA # Zero => startSupport = "fixed"
    /\ Reactions.momentB # Zero => endSupport = "fixed"

\* The overlap of a distributed load with the span, and the reactions that
\* the overlap's force, acting at the overlap's midpoint, splits into.
OverlapSplit(load, sA, sB) ==
    LET startX == MathMax(load.position, sA)
        endX == MathMin(Add(load.position, Number(load.length)), sB)
        overlap == Sub(endX, startX)
        force == Mul(MathAbs(load.magnitude), overlap)
        mid == Div(Add(startX, endX), N(2))
        rB == Div(Mul(force, Sub(mid, sA)), Sub(sB, sA))
    IN  [reactionA |-> Sub(force, rB), reactionB |-> rB]

\* A single distributed load starts before the start support and reaches
\* into the span; the supports are pin or roller.
OverlapsFromBefore ==
    /\ SupportsOrdered
    /\ Len(loads) = 1
    /\ loads[1].type = "distributed"
    /\ IsFinite(loads[1].length) /\ IsFinite(loads[1].magnitude)
    /\ Lt(loads[1].position, startSupportPosition)
    /\ Gt(Add(loads[1].position, loads[1].length), startSupportPosition)
    /\ startSupport # "fixed" /\ endSupport # "fixed"

\* C20: for a single distributed load that starts before the start support
\* and overlaps the span, with pin or roller supports, calculateReactions
\* returns the lever-arm split of magnitude times overlap length acting at
\* the midpoint of the overlap, up to the rounding to three decimals.
C20_OverlapContributes ==
    OverlapsFromBefore =>
        LET split == OverlapSplit(loads[1], startSupportPosition,
                                  endSupportPosition)
        IN  /\ Near(Reactions.reactionA, split.reactionA, Hundredth)
            /\ Near(Reactions.reactionB, split.reactionB, Hundredth)

----------------------------------------------------------------------------
(* Claims about calculateReactions and calculateMoment of the main component *)

\* The render holds one load, a point load.
SinglePoint == Len(arg.loads) = 1 /\ arg.loads[1].type = "point"

\* Pin at the start support, roller at the end support.
PinAndRoller == arg.startSupport = "pin" /\ arg.endSupport = "roller"

\* The middle of the span.
MidSpan ==
    Div(Add(arg.geometry.startSupportPosition, arg.geometry.endSupportPosition),
        N(2))

\* Distances from the middle of the span, in quarters.
Offsets == {Q(k, 4) : k \in 0..10}

\* x lies in [sA, sB].
InSpan(x) ==
    /\ Ge(x, arg.geometry.startSupportPosition)
    /\ Le(x, arg.geometry.endSupportPosition)

\* C21: symmetry.  With a pin and a roller and a single point load of nonzero
\* magnitude, of either sign, at the middle of the span, calculateReactions
\* returns reactionA = reactionB, and calculateMoment with those reactions
\* gives Moment(mid - d) = Moment(mid + d) for every d with both positions in
\* the span.
C21_Symmetry ==
    (/\ ret.moment /\ PinAndRoller /\ SinglePoint
     /\ arg.loads[1].magnitude # Zero
     /\ arg.loads[1].position = MidSpan)
    => /\ reactionsF.reactionA = reactionsF.reactionB
       /\ \A d \in Offsets :
            (InSpan(Sub(MidSpan, d)) /\ InSpan(Add(MidSpan, d)))
            => momentF(Sub(MidSpan, d)) = momentF(Add(MidSpan, d))

\* The case of C22: supports at the two ends of the beam, a pin and a
\* roller, and a single point load of positive magnitude.
SimplySupportedPoint ==
    /\ PinAndRoller /\ SinglePoint
    /\ arg.geometry.startSupportPosition = Zero
    /\ arg.geometry.endSupportPosition = arg.geometry.beamLength
    /\ Gt(arg.loads[1].magnitude, Zero)

\* P * p / L and P * p * (L - p) / L of the single point load.
StaticsReactionB ==
    Div(Mul(arg.loads[1].magnitude, arg.loads[1].position),
        arg.geometry.beamLength)
StaticsMomentAtLoad ==
    Mul(StaticsReactionB, Sub(arg.geometry.beamLength, arg.loads[1].position))

FullSpanDistributed ==
    /\ PinAndRoller /\ Len(arg.loads) = 1
    /\ arg.geometry.startSupportPosition = Zero
    /\ arg.geometry.endSupportPosition = arg.geometry.beamLength
    /\ arg.loads[1].type = "distributed"
    /\ arg.loads[1].position = Zero
    /\ arg.loads[1].length = arg.geometry.beamLength

\* |w| * beamLength / 2 of the single distributed load.
HalfTotalForce ==
    Div(Mul(MathAbs(arg.loads[1].magnitude), arg.geometry.beamLength), N(2))

\* C23 as stated: for a pin at 0, a roller at beamLength and a single
\* distributed load with position 0, length beamLength and magnitude w of
\* either sign, calculateReactions returns
\* reactionA = reactionB = |w| * beamLength / 2.
C23_FullSpanExact ==
    (ret.reactions /\ FullSpanDistributed)
    => /\ reactionsF.reactionA = HalfTotalForce
       /\ reactionsF.reactionB = HalfTotalForce

\* C23 with the rounding of the code: in that case calculateReactions
\* returns reactionA = reactionB = |w| * beamLength / 2 rounded to three
\* decimals.
C23_FullSpanRounded ==
    (ret.reactions /\ FullSpanDistributed)
    => /\ reactionsF.reactionA = ToFixed3(HalfTotalForce)
       /\ reactionsF.reactionB = ToFixed3(HalfTotalForce)

\* The reactions of the load -5 over the whole beam of length 5 have been
\* computed: 12.5 each.
C23_Witness ==
    /\ ret.reactions /\ FullSpanDistributed
    /\ arg.loads[1].magnitude = N(-5) /\ arg.geometry.beamLength = N(5)
    /\ reactionsF.reactionA = Q(25, 2) /\ reactionsF.reactionB = Q(25, 2)

\* The step of the one-sided limits: the positions of the supports and of
\* the loads are multiples of 1/2, so that x - 3 * step .. x and
\* x .. x + 3 * step each lie within one piece of the moment.
LimitStep == Q(1, 100)

\* The limit of calculateMoment at x from the side sign (-1 left, 1 right):
\* on each piece the moment is a polynomial of degree at most 2 in x, whose
\* value at x is 3 f(x + s) - 3 f(x + 2 s) + f(x + 3 s).
MomentLimit(x, sign) ==
    LET at(k) == momentF(Add(x, Mul(N(sign * k), LimitStep)))
    IN  Add(Sub(Mul(N(3), at(1)), Mul(N(3), at(2))), at(3))

\* The positions where the moment changes its formula: the supports, the
\* positions of the loads, and the ends of the distributed loads.
Breakpoints ==
    {arg.geometry.startSupportPosition, arg.geometry.endSupportPosition}
    \cup {arg.loads[i].position : i \in 1..Len(arg.loads)}
    \cup {Add(arg.loads[i].position, arg.loads[i].length) :
            i \in {j \in 1..Len(arg.loads) : arg.loads[j].type = "distributed"}}

\* A 'moment' load sits at x.
MomentLoadAt(x) ==
    \E i \in 1..Len(arg.loads) :
        arg.loads[i].type = "moment" /\ arg.loads[i].position = x

\* C24: continuity of the bending moment.  With the reactions of
\* calculateReactions, at every x inside the beam that is not the position of
\* a 'moment' load, the left and the right limit of calculateMoment are equal
\* (to within the rounding of the moments to three decimals), also at the
\* support positions, beyond which the moment is 0.
C24_MomentContinuous ==
    ret.moment
    => \A x \in Breakpoints :
         (Gt(x, Zero) /\ Lt(x, arg.geometry.beamLength) /\ ~MomentLoadAt(x))
         => Near(MomentLimit(x, -1), MomentLimit(x, 1), Hundredth)

\* The load lies in [sA, sB] and is a point load, a moment load, or a
\* distributed load with a nonzero length.
Counted(load) ==
    /\ InSpan(load.position)
    /\ \/ load.type \in {"point", "moment"}
       \/ load.type = "distributed" /\ Truthy(load.length)

\* The reactions of the render that would hold the list ls.
ReactionsOfList(ls) ==
    calculateReactions(ls, arg.geometry.startSupportPosition,
                       arg.geometry.endSupportPosition, arg.startSupport,
                       arg.endSupport)

\* C25: last load wins.  When neither support is fixed, calculateReactions
\* returns for a load list exactly what it returns for the list of one
\* load, the last counted load of the list; earlier loads, torsion loads and
\* loads outside the span have no influence (with no counted load the
\* result is that of the empty list).
C25_LastLoadWins ==
    (ret.reactions /\ arg.startSupport # "fixed" /\ arg.endSupport # "fixed")
    => LET counted == {i \in 1..Len(arg.loads) : Counted(arg.loads[i])}
           last == CHOOSE i \in counted : \A j \in counted : j <= i
       IN  IF counted = {} THEN reactionsF = ReactionsOfList(<<>>)
           ELSE reactionsF = ReactionsOfList(<<arg.loads[last]>>)

\* The reactions of two counted loads have been computed, and they are those
\* of the second load alone: 50 and then -10 at 2.5 between supports at 0
\* and 4 give 3.75 and 6.25.
C25_Witness ==
    /\ ret.reactions /\ PinAndRoller
    /\ Len(arg.loads) = 2
    /\ Counted(arg.loads[1]) /\ Counted(arg.loads[2])
    /\ arg.loads[1].magnitude = N(50) /\ arg.loads[2].magnitude = N(-10)
    /\ reactionsF.reactionA = Q(15, 4) /\ reactionsF.reactionB = Q(25, 4)

\* reactionA + reactionB of calculateReactions before its rounding, for the
\* loads and the supports of the render with the support kinds kA and kB.
RawForceSum(kA, kB) ==
    LET r == RawReactions(arg.loads, arg.geometry.startSupportPosition,
                          arg.geometry.endSupportPosition, kA, kB)
    IN  Add(r.reactionA, r.reactionB)

\* No point load sits exactly on the end support.
NoPointOnEndSupport ==
    \A i \in 1..Len(arg.loads) :
        arg.loads[i].type = "point"
        => arg.loads[i].position # arg.geometry.endSupportPosition

\* C27: the fixed-support correction preserves the force sum.  For a load
\* list with no point load exactly on the end support and a span > 0, the
\* value reactionA + reactionB that calculateReactions computes before its
\* final rounding is the same for all nine combinations of support kinds.
C27_CorrectionKeepsSum ==
    (/\ ret.reactions /\ NoPointOnEndSupport
     /\ Gt(Sub(arg.geometry.endSupportPosition,
               arg.geometry.startSupportPosition), Zero))
    => \A kA \in Kinds, kB \in Kinds :
         RawForceSum(kA, kB) = RawForceSum(arg.startSupport, arg.endSupport)

\* The reactions of a beam with two fixed supports and a point load inside
\* the span have been computed, and the correction has moved force: the
\* load 50 at 2.5 between 0 and 4 gives reactionA 18.75 with a pin and a
\* roller.
C27_Witness ==
    /\ ret.reactions /\ SinglePoint /\ NoPointOnEndSupport
    /\ arg.startSupport = "fixed" /\ arg.endSupport = "fixed"
    /\ arg.loads[1].magnitude = N(50) /\ arg.loads[1].position = Q(5, 2)
    /\ arg.geometry.endSupportPosition = N(4)
    /\ reactionsF.reactionA # Q(75, 4)
    /\ RawForceSum("fixed", "fixed") = N(50)

\* The list ls with the magnitudes of the loads at the indices S negated.
Negated(ls, S) ==
    [i \in 1..Len(ls) |->
        IF i \in S THEN [ls[i] EXCEPT !.magnitude = Neg(@)] ELSE ls[i]]

\* The indices of the point and the distributed loads of the render.
ForceLoads ==
    {i \in 1..Len(arg.loads) : arg.loads[i].type \in {"point", "distributed"}}

\* With neither support fixed, negating the magnitudes of any point and
\* distributed loads leaves reactionA and reactionB of calculateReactions
\* as they are.
SignIgnored ==
    \A S \in SUBSET ForceLoads :
        LET r == ReactionsOfList(Negated(arg.loads, S))
        IN  /\ r.reactionA = reactionsF.reactionA
            /\ r.reactionB = reactionsF.reactionB

\* A single point load of negative magnitude strictly inside the span.
NegativePointInside ==
    /\ SinglePoint
    /\ Lt(arg.loads[1].magnitude, Zero)
    /\ Gt(arg.loads[1].position, arg.geometry.startSupportPosition)
    /\ Lt(arg.loads[1].position, arg.geometry.endSupportPosition)

\* C28 as stated: with neither support fixed, calculateReactions returns the
\* same reactionA and reactionB when the magnitude of any point or
\* distributed load is negated, and for a single point load of negative
\* magnitude strictly inside the span calculateMoment at the end support is
\* not zero.
C28_SignIgnoredExact ==
    (ret.moment /\ arg.startSupport # "fixed" /\ arg.endSupport # "fixed")
    => /\ SignIgnored
       /\ NegativePointInside
          => momentF(arg.geometry.endSupportPosition) # Zero

\* C28 with the rounding of the code: the moment at the end support is not
\* zero when |magnitude| * (sB - position) is at least 0.0005, the least
\* value that toFixed(3) does not round to 0.
C28_SignIgnoredRounded ==
    (ret.moment /\ arg.startSupport # "fixed" /\ arg.endSupport # "fixed")
    => /\ SignIgnored
       /\ (/\ NegativePointInside
           /\ Ge(Mul(MathAbs(arg.loads[1].magnitude),
                     Sub(arg.geometry.endSupportPosition,
                         arg.loads[1].position)), Q(1, 2000)))
          => momentF(arg.geometry.endSupportPosition) # Zero

\* The moment at the end support has been computed for the load -10 at 2.5
\* between a pin at 0 and a roller at 4: it is 30.
C28_Witness ==
    /\ ret.moment /\ PinAndRoller /\ NegativePointInside
    /\ arg.loads[1].magnitude = N(-10) /\ arg.loads[1].position = Q(5, 2)
    /\ arg.geometry.endSupportPosition = N(4)
    /\ reactionsF.reactionA = Q(15, 4)
    /\ momentF(N(4)) = N(30)

----------------------------------------------------------------------------
(* Claims about the load handlers as closures of a render *)

\* C30: no lost update.  When two load handlers have been invoked against
\* the same render's 'loads', the stored list holds the effects of both: it
\* is the list that results from applying the first to the loads of the
\* render and the second to the result; in particular two addLoad
\* invocations leave two more loads, with distinct ids.
C30_NoLostUpdate ==
    Len(closure.calls) = 2
    => /\ loads = LoadsAfter(closure.calls[2],
                             LoadsAfter(closure.calls[1], closure.loads,
                                        beamLength), beamLength)
       /\ (closure.calls[1].op = "addLoad" /\ closure.calls[2].op = "addLoad")
          => /\ Len(loads) = Len(closure.loads) + 2
             /\ \A i, j \in DOMAIN loads : loads[i].id = loads[j].id => i = j

----------------------------------------------------------------------------
(* Claims about what the main component renders *)

\* C13: at every render, the reactions the diagram is computed from equal
\* calculateReactions applied to the loads, support positions and support
\* kinds of that render, the first render and the render right after an input
\* change included.
C13_ReactionsCurrent == reactions = Reactions

\* The diagram of the render that follows the pending effect: the inputs are
\* those of the current render, the reactions are the ones the effect stores
\* and calculateMoment is made anew.
diagramAfterEffect ==
    generateDiagramData(beamLength, loads, Reactions, startSupportPosition,
                        endSupportPosition, endSupportPosition, startSupport)

\* C14, for a render and the render that follows its effect: the two agree on
\* beam length, section height and width, load list, support positions and
\* support kinds, so generateDiagramData returns the same shear, moment and
\* torsion at every station in both.
C14_DiagramDeterministic == pc = "effect" => diagramData = diagramAfterEffect

\* C16: for a beam length > 0, the 101 positions of the diagram are strictly
\* increasing, the first is 0 and the last is beamLength.
C16_DiagramShape ==
    Gt(beamLength, Zero) =>
        /\ DOMAIN diagramData = 0..100
        /\ \A i \in 0..99 :
                Lt(Station(i, beamLength), Station(i + 1, beamLength))
        /\ Station(0, beamLength) = Zero
        /\ Station(100, beamLength) = beamLength

OutsideSpan(x) == Lt(x, startSupportPosition) \/ Gt(x, endSupportPosition)

\* C17: in every rendered diagram, a point whose position lies outside
\* [startSupportPosition, endSupportPosition] has shear 0, moment 0 and
\* torsion 0.
C17_ZeroOutsideSpan ==
    \A i \in DOMAIN diagramData :
        OutsideSpan(Station(i, beamLength)) =>
            /\ diagramData[i].shear = Zero
            /\ diagramData[i].moment = Zero
            /\ diagramData[i].torsion = Zero

SectionFinite(sp) ==
    /\ IsFinite(sp.area) /\ IsFinite(sp.momentOfInertia)
    /\ IsFinite(sp.sectionModulus) /\ IsFinite(sp.polarMomentOfInertia)
    /\ IsFinite(sp.torsionalConstant)

StressesFinite(st) ==
    /\ IsFinite(st.normalStress) /\ IsFinite(st.shearStress)
    /\ IsFinite(st.torsionalStress) /\ IsFinite(st.vonMisesStress)

\* C18: with beam height 0 or beam width 0, calculateSectionProperties
\* returns only finite values and so does calculateStresses at every station
\* of the diagram.
C18_DegenerateSectionFinite ==
    (beamHeight = Zero \/ beamWidth = Zero) =>
        /\ SectionFinite(calculateSectionProperties(beamHeight, beamWidth))
        /\ \A i \in 0..points :
                StressesFinite(
                    calculateStresses(Station(i, beamLength), beamHeight,
                        beamWidth, loads, reactions, startSupportPosition,
                        endSupportPosition, momentEnd, startSupport))

\* C26: eventual consistency of the reactions.  A change of loads, support
\* positions or support kinds leaves the effect pending.  Every step taken
\* with the effect pending is the effect: it changes no input and leaves no
\* effect pending, so the effect does not trigger itself again and the
\* render after it is idle; and in every idle render the stored reactions
\* equal calculateReactions of the current inputs, so they are equal after
\* the effect and stay equal until the next input change.
C26_EventuallyConsistent ==
    /\ [](pc = "idle" => reactions = Reactions)
    /\ [][pc = "effect" => (pc' = "idle" /\ mainVars' = mainVars)]_vars

\* An idle render after the effect that followed addLoad: the stored
\* reactions are those of the two loads.
C26_Witness ==
    /\ pc = "idle" /\ steps >= 1 /\ Len(loads) = 2
    /\ reactions = Reactions /\ reactions # ZeroReactions

----------------------------------------------------------------------------
(* Claims about the moment-area variant *)

\* C15: for every pair of support kinds the diagram computation runs to its
\* end and returns its 101 points: it never exhausts the call stack, and once
\* it has stopped it is done.
C15_DiagramTerminates ==
    /\ ret.at # "RangeError"
    /\ ~(ENABLED NextD) => (ret.at = "done" /\ ret.i = points3)

----------------------------------------------------------------------------
(* Claims about the conjugate-beam variant *)

\* C19: calculateDeflection(startSupportPosition) is 0 when the start support
\* is pin or roller, and calculateDeflection(endSupportPosition) is 0 when the
\* end support is pin or roller, whatever the load and the other support.
C19_SupportDeflectionZero ==
    /\ (arg.startSupport # "fixed" /\ ret.atStart) => deflectionAtStart = Zero
    /\ (arg.endSupport # "fixed" /\ ret.atEnd) => deflectionAtEnd = Zero

----------------------------------------------------------------------------
(* Claims about the validating component *)

\* C7: every load of the validating component's list has its position in
\* [0, beamLength] and a magnitude that is not NaN, and every distributed one
\* a length > 0 with position + length <= beamLength.
C7_LoadsValidated ==
    \A i \in DOMAIN vLoads :
        /\ PositionInBeam(vLoads[i], vBeamLength)
        /\ ~isNaN(vLoads[i].magnitude)
        /\ DistributedFits(vLoads[i], vBeamLength)

\* C7 witness: the distributed load was given the length 1 and then the
\* position 4, where it ends exactly at the end of the beam, and a load was
\* added.
C7_Witness ==
    /\ vBeamLength = N(5)
    /\ Len(vLoads) = 4
    /\ vLoads[2].type = "distributed"
    /\ vLoads[2].position = N(4)
    /\ vLoads[2].length = N(1)

\* C29: rejected type change.  updateLoad(id, 'type', 'distributed') applied
\* to a load whose length is 0 writes nothing, every load that addLoad
\* appends has length 0, and a load that becomes 'distributed' had, while it
\* still had another type, a positive length with
\* position + length <= beamLength.
C29_TypeChangeRejected ==
    /\ [](\A i \in DOMAIN vLoads :
            (vLoads[i].type # "distributed" /\ vLoads[i].length = Zero)
            => ~ENABLED updateLoadV(vLoads[i].id, "type", "distributed"))
    /\ [][/\ Len(vLoads') = Len(vLoads) + 1
             => vLoads'[Len(vLoads')].length = Zero
          /\ \A i \in DOMAIN vLoads, j \in DOMAIN vLoads' :
               (/\ vLoads[i].id = vLoads'[j].id
                /\ vLoads[i].type # "distributed"
                /\ vLoads'[j].type = "distributed")
               => /\ Gt(vLoads[i].length, Zero)
                  /\ Le(Add(vLoads[i].position, vLoads[i].length),
                        vBeamLength)]_vars

\* A load created by addLoad (the initial loads have the ids 1 to 3) has
\* been given the magnitude 7 and the type 'moment'; its length is 0 and
\* the change of its type to 'distributed' is refused.
C29_Witness ==
    \E i \in DOMAIN vLoads :
        /\ vLoads[i].id = 4
        /\ vLoads[i].magnitude = N(7) /\ vLoads[i].type = "moment"
        /\ vLoads[i].length = Zero
        /\ ~ENABLED updateLoadV(4, "type", "distributed")

----------------------------------------------------------------------------
(* Claims about validateLoad *)

\* The rules of the load set for a load and a beam length.
RulesHold(load, bl) ==
    /\ IsFinite(bl) /\ Gt(bl, Zero)
    /\ IsFinite(load.position) /\ Le(Zero, load.position) /\ Le(load.position, bl)
    /\ IsFinite(load.magnitude)
    /\ load.type = "distributed" =>
            /\ IsFinite(load.length) /\ Gt(load.length, Zero)
            /\ Le(Add(load.position, load.length), bl)

\* C9: validateLoad returns isValid = true exactly when the beam length is
\* finite and > 0, the position is finite and in [0, beamLength], the
\* magnitude is finite and a distributed load has a finite length > 0 with
\* position + length <= beamLength; otherwise isValid = false with a message.
C9_ValidateLoadExact ==
    ret.called =>
        /\ ret.result.isValid = RulesHold(arg.load, arg.beamLength)
        /\ ~ret.result.isValid => ret.result.message # <<>>

====
